---- MODULE Spec2Model ----
(***************************************************************************)
(* scanseq-rs: path parsing (core/file/mod.rs) and sequence grouping       *)
(* (core/seq/mod.rs).                                                      *)
(*                                                                         *)
(* Strings are sequences of one-character strings, so that slicing,        *)
(* searching and concatenation are computed as the Rust code computes      *)
(* them.  Offsets are 0-based as in the source; Slice(s, a, b) is s[a..b]. *)
(* Option<T> is a sequence: <<>> is None, <<v>> is Some(v).                *)
(***************************************************************************)
EXTENDS Integers, Sequences, FiniteSets, TLC

VARIABLES
    pc,          \* "listed", "parsed", "done"
    paths,       \* the listed paths, before File::new
    flist,       \* Vec<File> handed to group_seqs
    by_hash,     \* group_seqs: by_hash after Phase 1
    sub_groups,  \* group_seqs: frame_grp_idx and sub_groups of each kept bucket
    seqs,        \* the Vec<Seq> group_seqs returns
    built,       \* for seqs[i], the <<signature, anchor key>> of its sub-group
    reply,       \* the last call on a Seq of the result: its arguments and value
    fs,          \* the directories on disk: readability and regular files of each
    cfg,         \* Scanner::get_seqs arguments: roots, recursive, mask, min_len
    task,        \* per root, the state of its scan::get_seqs invocation
    scan_result, \* the ScanResult, once Scanner::get_seqs has merged the roots
    log          \* the directories handed to scan_files_glob so far, per root

groupvars == <<pc, paths, flist, by_hash, sub_groups, seqs, built, reply>>

scanvars == <<fs, cfg, task, scan_result, log>>

vars == <<pc, paths, flist, by_hash, sub_groups, seqs, built, reply,
          fs, cfg, task, scan_result, log>>

\* ---------------------------------------------------------------- strings

Digits == {"0", "1", "2", "3", "4", "5", "6", "7", "8", "9"}

DigitVal(c) ==
    CASE c = "0" -> 0 [] c = "1" -> 1 [] c = "2" -> 2 [] c = "3" -> 3
      [] c = "4" -> 4 [] c = "5" -> 5 [] c = "6" -> 6 [] c = "7" -> 7
      [] c = "8" -> 8 [] c = "9" -> 9

\* s[a..b] with 0-based byte offsets, b exclusive
Slice(s, a, b) == [i \in 1..(b - a) |-> s[a + i]]

Range(s) == {s[i] : i \in 1..Len(s)}

Min(S) == CHOOSE x \in S : \A y \in S : x <= y

Max(S) == CHOOSE x \in S : \A y \in S : x >= y

None == <<>>

Some(v) == <<v>>

\* str::find over a set of characters: 0-based offset of the first match
Find(s, chars) ==
    LET hits == {i \in 1..Len(s) : s[i] \in chars}
    IN  IF hits = {} THEN None ELSE Some(Min(hits) - 1)

\* str::rfind over a set of characters: 0-based offset of the last match
RFind(s, chars) ==
    LET hits == {i \in 1..Len(s) : s[i] \in chars}
    IN  IF hits = {} THEN None ELSE Some(Max(hits) - 1)

\* str::replace('\\', "/")
ReplaceBackslash(s) == [i \in 1..Len(s) |-> IF s[i] = "\\" THEN "/" ELSE s[i]]

\* "#".repeat(n)
Repeat(c, n) == [i \in 1..n |-> c]

\* ------------------------------------------------------- core/file/mod.rs

RECURSIVE ExtractLoopNoTail(_, _, _, _, _)
\* mutant: a digit run that ends the name is not pushed
ExtractLoopNoTail(name, pos, in_digit, start, groups) ==
    IF pos = Len(name)
    THEN groups
    ELSE IF name[pos + 1] \in Digits
         THEN IF ~in_digit
              THEN ExtractLoopNoTail(name, pos + 1, TRUE, pos, groups)
              ELSE ExtractLoopNoTail(name, pos + 1, TRUE, start, groups)
         ELSE IF in_digit
              THEN ExtractLoopNoTail(name, pos + 1, FALSE, start,
                                     Append(groups, <<start, pos - start>>))
              ELSE ExtractLoopNoTail(name, pos + 1, FALSE, start, groups)

RECURSIVE ExtractLoop(_, _, _, _, _)
\* the char_indices loop of extract_num_groups; pos is the 0-based offset
ExtractLoop(name, pos, in_digit, start, groups) ==
    IF pos = Len(name)
    THEN IF in_digit THEN Append(groups, <<start, Len(name) - start>>) ELSE groups
    ELSE IF name[pos + 1] \in Digits
         THEN IF ~in_digit
              THEN ExtractLoop(name, pos + 1, TRUE, pos, groups)
              ELSE ExtractLoop(name, pos + 1, TRUE, start, groups)
         ELSE IF in_digit
              THEN ExtractLoop(name, pos + 1, FALSE, start,
                               Append(groups, <<start, pos - start>>))
              ELSE ExtractLoop(name, pos + 1, FALSE, start, groups)

extract_num_groups(name) == ExtractLoop(name, 0, FALSE, 0, <<>>)

RECURSIVE MaskLoopPerDigit(_, _, _, _, _)
\* mutant: one placeholder for every digit of a run
MaskLoopPerDigit(name, groups, k, pos, result) ==
    IF k > Len(groups)
    THEN result \o Slice(name, pos, Len(name))
    ELSE LET start == groups[k][1]
             len   == groups[k][2]
         IN  MaskLoopPerDigit(name, groups, k + 1, start + len,
                      (result \o Slice(name, pos, start)) \o Repeat("@", len))

RECURSIVE MaskLoop(_, _, _, _, _)
MaskLoop(name, groups, k, pos, result) ==
    IF k > Len(groups)
    THEN result \o Slice(name, pos, Len(name))
    ELSE LET start == groups[k][1]
             len   == groups[k][2]
         IN  MaskLoop(name, groups, k + 1, start + len,
                      (result \o Slice(name, pos, start)) \o <<"@">>)

make_mask(name, groups) ==
    IF groups = <<>> THEN name ELSE MaskLoop(name, groups, 1, 0, <<>>)

Slashes == {"\\", "/"}

\* split of a filename at its last dot (a dot at offset 0 is no extension)
SplitExt(filename) ==
    LET last_dot == RFind(filename, {"."})
    IN  IF last_dot # None /\ last_dot[1] > 0
        THEN <<Slice(filename, 0, last_dot[1]),
               Slice(filename, last_dot[1], Len(filename))>>
        ELSE <<filename, <<>>>>

\* mutant: the directory part without its final separator
PathPartExclusive(after_drive, pos) == Slice(after_drive, 0, pos)

\* the directory part of after_drive: &after_drive[..=pos]
PathPart(after_drive, pos) == Slice(after_drive, 0, pos + 1)

parse_fpn(fpn) ==
    LET first_slash == Find(fpn, Slashes)
    IN  IF first_slash = None
        THEN LET ne == SplitExt(fpn)
             IN  [drive |-> <<>>, path |-> <<>>, name |-> ne[1], ext |-> ne[2],
                  num_groups |-> extract_num_groups(ne[1])]
        ELSE LET drive       == Slice(fpn, 0, first_slash[1])
                 after_drive == Slice(fpn, first_slash[1], Len(fpn))
                 last_slash  == RFind(after_drive, Slashes)
                 path_part   == IF last_slash # None
                                THEN PathPart(after_drive, last_slash[1])
                                ELSE <<>>
                 filename    == IF last_slash # None
                                THEN Slice(after_drive, last_slash[1] + 1,
                                           Len(after_drive))
                                ELSE after_drive
                 ne          == SplitExt(filename)
             IN  [drive |-> drive, path |-> path_part, name |-> ne[1],
                  ext |-> ne[2], num_groups |-> extract_num_groups(ne[1])]

\* File::new on a build without cfg(windows): no case folding
File_new(p) ==
    LET c == parse_fpn(p)
    IN  [fpn |-> p, drive |-> c.drive, path |-> c.path, name |-> c.name,
         ext |-> c.ext, num_groups |-> c.num_groups,
         mask |-> make_mask(c.name, c.num_groups)]

has_nums(file) == file.num_groups # <<>>

\* The value DefaultHasher is fed: drive, path, mask, ext in this order (each
\* str is hashed with a terminator, so the fed byte stream determines the
\* four fields).  The 64-bit digest is modelled by its input; digest
\* collisions between different inputs are outside the model.
signature_hash(file) == <<file.drive, file.path, file.mask, file.ext>>

sig_hash(file) == signature_hash(file)

\* ------------------------------------------------------- core/seq/mod.rs

MAX_MISSED_GAP == 100000

\* i64::MAX = 9223372036854775807, digit by digit
I64MaxDigits == <<9, 2, 2, 3, 3, 7, 2, 0, 3, 6, 8, 5, 4, 7, 7, 5, 8, 0, 7>>

RECURSIVE StripZeros(_)
StripZeros(s) ==
    IF s # <<>> /\ Head(s) = "0" THEN StripZeros(Tail(s)) ELSE s

\* a digit string of the length of I64MaxDigits that is greater than it
ExceedsI64(sig) ==
    \E i \in 1..Len(sig) :
        /\ DigitVal(sig[i]) > I64MaxDigits[i]
        /\ \A j \in 1..(i - 1) : DigitVal(sig[j]) = I64MaxDigits[j]

RECURSIVE Horner(_, _)
Horner(s, acc) ==
    IF s = <<>> THEN acc ELSE Horner(Tail(s), acc * 10 + DigitVal(Head(s)))

\* str::parse::<i64> on a slice without sign: Err on an empty slice, on a
\* non-digit, and when the value exceeds i64::MAX (PosOverflow).  The
\* overflow test is done on the digits, the value is computed only when it
\* fits.
ParseI64(s) ==
    IF s = <<>> \/ \E i \in 1..Len(s) : s[i] \notin Digits
    THEN None
    ELSE LET sig == StripZeros(s)
         IN  IF \/ Len(sig) > Len(I64MaxDigits)
                \/ (Len(sig) = Len(I64MaxDigits) /\ ExceedsI64(sig))
             THEN None
             ELSE Some(Horner(sig, 0))

\* the checked slice of digit group grp_idx of f: None when f has no such
\* group or when the group's bounds exceed the name
GroupText(f, grp_idx) ==
    IF grp_idx >= Len(f.num_groups)
    THEN None
    ELSE LET start == f.num_groups[grp_idx + 1][1]
             len   == f.num_groups[grp_idx + 1][2]
             end   == start + len
         IN  IF end > Len(f.name) THEN None ELSE Some(Slice(f.name, start, end))

\* the filter_map closure of from_files, and the inner block of
\* find_frame_group: the frame value of f, if any
FrameValue(f, grp_idx) ==
    LET t == GroupText(f, grp_idx)
    IN  IF t = None THEN None ELSE ParseI64(t[1])

\* the HashSet `unique` of find_frame_group after the inner loop
UniqueValues(files, grp_idx) ==
    {FrameValue(files[i], grp_idx)[1] :
        i \in {j \in 1..Len(files) : FrameValue(files[j], grp_idx) # None}}

\* mutant: ties go to the leftmost group
PrefersGroupStrict(count, best_count) == count > best_count

\* `unique.len() >= best_count`
PrefersGroup(count, best_count) == count >= best_count

RECURSIVE FrameGroupLoop(_, _, _, _, _)
FrameGroupLoop(files, num_groups, grp_idx, best_idx, best_count) ==
    IF grp_idx >= num_groups
    THEN best_idx
    ELSE LET n == Cardinality(UniqueValues(files, grp_idx))
         IN  IF PrefersGroup(n, best_count)
             THEN FrameGroupLoop(files, num_groups, grp_idx + 1, grp_idx, n)
             ELSE FrameGroupLoop(files, num_groups, grp_idx + 1, best_idx, best_count)

find_frame_group(files) ==
    LET num_groups == IF files = <<>> THEN 0
                      ELSE Max({Len(files[i].num_groups) : i \in 1..Len(files)})
    IN  IF num_groups = 0 THEN 0
        ELSE FrameGroupLoop(files, num_groups, 0, num_groups - 1, 0)

RECURSIVE Join(_)
\* parts.join("_")
Join(parts) ==
    IF parts = <<>> THEN <<>>
    ELSE IF Len(parts) = 1 THEN parts[1]
    ELSE (parts[1] \o <<"_">>) \o Join(Tail(parts))

\* mutant: the frame group takes part in the anchor key too
IsAnchorAlways(idx, frame_grp_idx) == TRUE

\* whether digit group idx of a file takes part in its anchor key
IsAnchor(idx, frame_grp_idx) == idx # frame_grp_idx

RECURSIVE AnchorParts(_, _, _)
AnchorParts(file, frame_grp_idx, idx) ==
    IF idx >= Len(file.num_groups)
    THEN <<>>
    ELSE LET t == GroupText(file, idx)
         IN  (IF IsAnchor(idx, frame_grp_idx) /\ t # None THEN <<t[1]>> ELSE <<>>)
                 \o AnchorParts(file, frame_grp_idx, idx + 1)

make_anchor_key(file, frame_grp_idx) == Join(AnchorParts(file, frame_grp_idx, 0))

\* (mutant of sub_group_by_anchors) every key gets a copy of all the files
\* of the bucket
SubGroupByAnchorsCloned(files, frame_grp_idx) ==
    [key \in {make_anchor_key(files[i], frame_grp_idx) : i \in 1..Len(files)} |->
        files]

\* HashMap<String, Vec<File>>: a function from the keys to the files of each
\* key, in the order of `files`
sub_group_by_anchors(files, frame_grp_idx) ==
    LET keys == {make_anchor_key(files[i], frame_grp_idx) : i \in 1..Len(files)}
    IN  [key \in keys |->
            SelectSeq(files, LAMBDA f : make_anchor_key(f, frame_grp_idx) = key)]

\* the files whose width detect_padding collects
CountsForPadding(f, grp_idx) == grp_idx < Len(f.num_groups)

detect_padding(files, grp_idx) ==
    LET lens == {files[i].num_groups[grp_idx + 1][2] :
                    i \in {j \in 1..Len(files) : CountsForPadding(files[j], grp_idx)}}
    IN  IF Cardinality(lens) = 1 THEN CHOOSE l \in lens : TRUE ELSE 0

\* mutant: a width of 1 is rendered as a fixed width
PlaceholderFixedFromOne(padding) ==
    IF padding < 1 THEN <<"@">> ELSE Repeat("#", padding)

\* the placeholder of the frame group
Placeholder(padding) == IF padding <= 1 THEN <<"@">> ELSE Repeat("#", padding)

RECURSIVE PatternLoop(_, _, _, _, _, _)
PatternLoop(file, frame_grp_idx, padding, k, pos, result) ==
    IF k > Len(file.num_groups)
    THEN IF pos <= Len(file.name)
         THEN result \o Slice(file.name, pos, Len(file.name))
         ELSE result
    ELSE LET start == file.num_groups[k][1]
             len   == file.num_groups[k][2]
             end   == start + len
             nlen  == Len(file.name)
         IN  IF start > nlen \/ end > nlen \/ pos > start
             THEN PatternLoop(file, frame_grp_idx, padding, k + 1, pos, result)
             ELSE PatternLoop(file, frame_grp_idx, padding, k + 1, end,
                     (result \o Slice(file.name, pos, start))
                        \o (IF k - 1 = frame_grp_idx
                            THEN Placeholder(padding)
                            ELSE Slice(file.name, start, end)))

gen_pattern(file, frame_grp_idx, padding) ==
    ((file.drive \o ReplaceBackslash(file.path))
        \o PatternLoop(file, frame_grp_idx, padding, 1, 0, <<>>)) \o file.ext

RECURSIVE Insert(_, _)
Insert(x, sorted) ==
    IF sorted = <<>> THEN <<x>>
    ELSE IF x <= Head(sorted) THEN <<x>> \o sorted
    ELSE <<Head(sorted)>> \o Insert(x, Tail(sorted))

RECURSIVE SortUnstable(_)
\* frames.sort_unstable()
SortUnstable(s) == IF s = <<>> THEN <<>> ELSE Insert(Head(s), SortUnstable(Tail(s)))

\* mutant: duplicates are kept
DedupNothing(s) == s

RECURSIVE Dedup(_)
\* frames.dedup(): consecutive equal elements collapse to one
Dedup(s) ==
    IF Len(s) <= 1 THEN s
    ELSE IF s[1] = s[2] THEN Dedup(Tail(s))
    ELSE <<s[1]>> \o Dedup(Tail(s))

\* (mutant of CollectFrames) one member without a frame value empties the
\* whole collection, as collect::<Option<Vec<_>>>() would
CollectFramesAllOrNothing(files, frame_grp_idx) ==
    IF \E i \in 1..Len(files) : FrameValue(files[i], frame_grp_idx) = None
    THEN <<>>
    ELSE [i \in 1..Len(files) |-> FrameValue(files[i], frame_grp_idx)[1]]

RECURSIVE CollectFrames(_, _)
\* files.iter().filter_map(..).collect()
CollectFrames(files, frame_grp_idx) ==
    IF files = <<>> THEN <<>>
    ELSE FrameValue(Head(files), frame_grp_idx)
            \o CollectFrames(Tail(files), frame_grp_idx)

\* mutant: a gap of exactly MAX_MISSED_GAP is skipped
EnumeratesGapBelow(gap) == gap > 1 /\ gap < MAX_MISSED_GAP

\* `gap > 1 && gap <= MAX_MISSED_GAP`
EnumeratesGap(gap) == gap > 1 /\ gap <= MAX_MISSED_GAP

RECURSIVE MissedLoop(_, _, _)
\* the gap loop; frames are sorted non-negative values, so saturating_sub is
\* the plain difference
MissedLoop(frames, i, missed) ==
    IF i >= Len(frames)
    THEN missed
    ELSE LET gap == frames[i + 1] - frames[i]
         IN  MissedLoop(frames, i + 1,
                 IF EnumeratesGap(gap)
                 THEN missed \o [k \in 1..(gap - 1) |-> frames[i] + k]
                 ELSE missed)

from_files(files, frame_grp_idx) ==
    IF files = <<>> THEN None
    ELSE LET frames == Dedup(SortUnstable(CollectFrames(files, frame_grp_idx)))
         IN  IF frames = <<>> THEN None
             ELSE LET padding == detect_padding(files, frame_grp_idx)
                  IN  Some([indices |-> frames,
                            missed  |-> MissedLoop(frames, 1, <<>>),
                            start   |-> frames[1],
                            end     |-> frames[Len(frames)],
                            padding |-> padding,
                            pattern |-> gen_pattern(files[1], frame_grp_idx, padding)])

\* mutant: files without digit groups are bucketed too
EntersBucketAlways(file) == TRUE

\* `!file.has_nums()` makes the drain loop skip a file
EntersBucket(file) == has_nums(file)

\* by_hash after Phase 1: each signature with its files, in the order of flist
BucketsOf(files) ==
    LET kept == SelectSeq(files, EntersBucket)
    IN  [h \in {sig_hash(kept[i]) : i \in 1..Len(kept)} |->
            SelectSeq(kept, LAMBDA f : sig_hash(f) = h)]

\* `files.len() < 2` makes Phase 2 skip a bucket
KeepsBucket(files) == Len(files) >= 2

\* `sub_files.len() >= 2`
KeepsSubGroup(sub_files) == Len(sub_files) >= 2

\* Phase 2 on the buckets it does not skip: the frame group index and the
\* anchor sub-groups of each
SubGroupsOf(buckets) ==
    [h \in {x \in DOMAIN buckets : KeepsBucket(buckets[x])} |->
        LET idx == find_frame_group(buckets[h])
        IN  [frame_grp_idx |-> idx,
             groups        |-> sub_group_by_anchors(buckets[h], idx)]]

\* the (bucket, anchor key) pairs for which Phase 2 pushes a Seq
Emitting(subs) ==
    {u \in UNION {{<<h, k>> : k \in DOMAIN subs[h].groups} : h \in DOMAIN subs} :
        /\ KeepsSubGroup(subs[u[1]].groups[u[2]])
        /\ from_files(subs[u[1]].groups[u[2]], subs[u[1]].frame_grp_idx) # None}

\* the orders in which two nested HashMap iterations can visit the pairs of
\* U: any order that keeps the pairs of one bucket together
VisitOrders(U) ==
    {ord \in [1..Cardinality(U) -> U] :
        /\ \A i, j \in DOMAIN ord : i # j => ord[i] # ord[j]
        /\ \A i, j, k \in DOMAIN ord :
              (i < j /\ j < k /\ ord[i][1] = ord[k][1]) => ord[j][1] = ord[i][1]}

\* ----------------------------------------------------------- core/scan.rs
\* A tree is a function from the paths of the existing directories (no final
\* separator) to [walk, list, files]: whether the walker can read the
\* directory, whether read_dir on it succeeds, and the names of its regular
\* files in read_dir order.  A path outside the domain does not exist.

\* Path::parent and Path::file_name of a directory path
ParentOf(d) ==
    LET pos == RFind(d, {"/"})[1]
    IN  IF pos = 0 THEN <<"/">> ELSE Slice(d, 0, pos)

BaseName(d) == Slice(d, RFind(d, {"/"})[1] + 1, Len(d))

\* folder.join(name)
JoinPath(folder, name) == (folder \o <<"/">>) \o name

ChildDirs(tree, d) == {c \in DOMAIN tree : ParentOf(c) = d}

\* jwalk::WalkDir::new leaves skip_hidden on, and scan_dirs does not turn it
\* off: an entry whose name starts with a dot is not yielded, nor descended
IsHidden(d) == Head(BaseName(d)) = "."

RECURSIVE Below(_, _, _)
\* the directories the walker yields below d, down to max_depth levels: the
\* children of a directory it cannot read are not yielded (the read error is
\* logged and skipped)
Below(tree, d, max_depth) ==
    IF max_depth = 0 \/ ~tree[d].walk
    THEN {}
    ELSE UNION {{c} \cup Below(tree, c, max_depth - 1) :
                   c \in {x \in ChildDirs(tree, d) : ~IsHidden(x)}}

\* the Ok entries of the walker that are directories; a root that does not
\* exist yields one Err and nothing else.  WalkDir::new(root) descends
\* without limit (no chain of directories is longer than the tree),
\* max_depth(1) stops at the children of the root.
WalkedDirs(tree, root, recursive) ==
    IF root \notin DOMAIN tree
    THEN {}
    ELSE {root} \cup Below(tree, root,
                          IF recursive THEN Cardinality(DOMAIN tree) ELSE 1)

\* the bytes of directory names in ascending order; the separator is put
\* first: PathBuf compares component by component, so a path sorts before
\* every path that continues one of its components
OrderedChars == <<"/", ".", "a", "b", "h", "m", "r", "s">>

CharRank(c) == CHOOSE i \in DOMAIN OrderedChars : OrderedChars[i] = c

RECURSIVE PathLess(_, _)
\* PathBuf's Ord, strict
PathLess(a, b) ==
    IF b = <<>> THEN FALSE
    ELSE IF a = <<>> THEN TRUE
    ELSE IF Head(a) = Head(b) THEN PathLess(Tail(a), Tail(b))
    ELSE CharRank(Head(a)) < CharRank(Head(b))

RECURSIVE SortDedup(_)
\* folders.sort(); folders.dedup(): the pushed paths in ascending order, each
\* once
SortDedup(pushed) ==
    IF pushed = {} THEN <<>>
    ELSE LET least == CHOOSE x \in pushed : \A y \in pushed \ {x} : PathLess(x, y)
         IN  <<least>> \o SortDedup(pushed \ {least})

\* scan_dirs: always Ok
scan_dirs(tree, root, recursive) ==
    SortDedup({d \in WalkedDirs(tree, root, recursive) : d # root} \cup {root})

\* glob::Pattern::new(m) is Err: an opening bracket that is never closed
InvalidGlob(m) ==
    \E i \in DOMAIN m : m[i] = "[" /\ \A j \in (i + 1)..Len(m) : m[j] # "]"

RECURSIVE GlobMatch(_, _)
\* glob::Pattern::matches with the default options, for patterns of literal
\* characters, '?' (one character) and '*' (any run of characters)
GlobMatch(pat, name) ==
    IF pat = <<>> THEN name = <<>>
    ELSE IF Head(pat) = "*"
         THEN \E k \in 0..Len(name) :
                 GlobMatch(Tail(pat), SubSeq(name, k + 1, Len(name)))
    ELSE IF name = <<>> THEN FALSE
    ELSE /\ (Head(pat) = "?" \/ Head(pat) = Head(name))
         /\ GlobMatch(Tail(pat), Tail(name))

\* `Some(m) if m.contains('*')`: the masks a glob pattern is compiled for
CompilesGlob(mask) == mask # None /\ "*" \in Range(mask[1])

\* read_dir entries of a directory: its regular files, then its directories
Entries(tree, folder) ==
    [i \in DOMAIN tree[folder].files |->
        [name |-> tree[folder].files[i], is_file |-> TRUE]]
    \o [i \in 1..Cardinality(ChildDirs(tree, folder)) |->
        [name |-> BaseName(SortDedup(ChildDirs(tree, folder))[i]), is_file |-> FALSE]]

\* scan_files_glob: Err(e) is [ok |-> FALSE, err |-> e], Ok(files) is
\* [ok |-> TRUE, files |-> files]
scan_files_glob(tree, folder, mask) ==
    IF folder \notin DOMAIN tree \/ ~tree[folder].list
    THEN [ok |-> FALSE, err |-> "Failed to read dir"]
    ELSE IF CompilesGlob(mask) /\ InvalidGlob(mask[1])
    THEN [ok |-> FALSE, err |-> "Invalid mask"]
    ELSE LET kept == SelectSeq(Entries(tree, folder),
                        LAMBDA e : /\ e.is_file
                                   /\ CompilesGlob(mask) => GlobMatch(mask[1], e.name))
         IN  [ok |-> TRUE,
              files |-> [i \in DOMAIN kept |-> JoinPath(folder, kept[i].name)]]

\* the Vecs group_seqs can return for these files: one for every order in
\* which its maps are visited
GroupResults(file_objs) ==
    LET subs == SubGroupsOf(BucketsOf(file_objs))
    IN  {[i \in DOMAIN ord |->
             from_files(subs[ord[i][1]].groups[ord[i][2]],
                        subs[ord[i][1]].frame_grp_idx)[1]] :
            ord \in VisitOrders(Emitting(subs))}

\* mutant: a Seq of exactly min_len indices is dropped
KeepsSeqAbove(s, min_len) == Len(s.indices) > min_len

\* `s.len() >= min_len`
KeepsSeq(s, min_len) == Len(s.indices) >= min_len

\* the per-folder closure of get_seqs on the listing it got and on the Vec
\* group_seqs returned (empty when grouping is not reached): listing, grouped
\* and filtered are the closure's locals, filtered is what it returns
FolderUnit(listing, grouped, min_len) ==
    [listing  |-> listing,
     grouped  |-> grouped,
     filtered |-> IF listing.ok
                  THEN SelectSeq(grouped, LAMBDA q : KeepsSeq(q, min_len))
                  ELSE <<>>]

\* (mutant of Flatten) each Vec overwrites the result instead of extending it
FlattenOverwrite(vecs) == IF vecs = <<>> THEN <<>> ELSE vecs[Len(vecs)]

RECURSIVE Flatten(_)
\* flat_map(..).collect() and Vec::extend in sequence: the Vecs in order
Flatten(vecs) == IF vecs = <<>> THEN <<>> ELSE Head(vecs) \o Flatten(Tail(vecs))

\* mutant: the folders after a folder whose listing failed are lost
AllSeqsUntilErr(units) ==
    Flatten([k \in DOMAIN units |->
                IF \E j \in 1..k : ~units[j][1].listing.ok
                THEN <<>> ELSE units[k][1].filtered])

\* all_seqs: what the closures of all folders returned, in folder order
AllSeqs(units) == Flatten([k \in DOMAIN units |-> units[k][1].filtered])

UpperChars == <<"A", "B", "C", "D", "E", "F", "G", "H", "I", "J", "K", "L", "M",
                "N", "O", "P", "Q", "R", "S", "T", "U", "V", "W", "X", "Y", "Z">>

LowerChars == <<"a", "b", "c", "d", "e", "f", "g", "h", "i", "j", "k", "l", "m",
                "n", "o", "p", "q", "r", "s", "t", "u", "v", "w", "x", "y", "z">>

\* str::to_lowercase, on ASCII text
to_lowercase(s) ==
    [i \in DOMAIN s |->
        IF \E k \in DOMAIN UpperChars : UpperChars[k] = s[i]
        THEN LowerChars[CHOOSE k \in DOMAIN UpperChars : UpperChars[k] = s[i]]
        ELSE s[i]]

\* str::eq_ignore_ascii_case
eq_ignore_ascii_case(a, b) == to_lowercase(a) = to_lowercase(b)

\* Path::extension of a file name: None without a dot, None when the only
\* dot is the first character, else the text after the last dot
extension(name) ==
    LET dot == RFind(name, {"."})
    IN  IF dot = None \/ dot[1] = 0 THEN None
        ELSE Some(Slice(name, dot[1] + 1, Len(name)))

\* the patterns of scan_files: a glob pattern for an entry with a wildcard,
\* compiled from its lowercase text (.ok(): None when it does not compile),
\* None for a plain entry
ExtPatterns(exts) ==
    [i \in DOMAIN exts |->
        IF "*" \in Range(exts[i]) \/ "?" \in Range(exts[i])
        THEN IF InvalidGlob(to_lowercase(exts[i])) THEN None
             ELSE Some(to_lowercase(exts[i]))
        ELSE None]

\* the extension filter of scan_files on one file name
PassesExts(name, exts) ==
    exts # <<>> =>
        LET e == extension(name)
        IN  /\ e # None
            /\ LET ext == to_lowercase(e[1])
                   patterns == ExtPatterns(exts)
               IN  \E i \in DOMAIN exts :
                      IF patterns[i] # None
                      THEN GlobMatch(patterns[i][1], ext)
                      ELSE eq_ignore_ascii_case(exts[i], ext)

\* the directories whose entries the walker of scan_files yields:
\* max_depth(1) yields the entries of the root only; a directory the walker
\* cannot read yields an Err, which is skipped
ReadDirs(tree, root, recursive) ==
    {d \in WalkedDirs(tree, root, recursive) :
        /\ tree[d].walk
        /\ recursive \/ d = root}

\* the files one root gives: the walker leaves skip_hidden on here too, so
\* a file whose name starts with a dot is not yielded
RootFiles(tree, root, recursive, exts) ==
    LET dirs == SortDedup(ReadDirs(tree, root, recursive))
    IN  Flatten([k \in DOMAIN dirs |->
            LET kept == SelectSeq(tree[dirs[k]].files,
                            LAMBDA n : Head(n) # "." /\ PassesExts(n, exts))
            IN  [i \in DOMAIN kept |-> JoinPath(dirs[k], kept[i])]])

\* scan_files: always Ok, the files of the roots in root order
scan_files(tree, roots, recursive, exts) ==
    Flatten([r \in DOMAIN roots |-> RootFiles(tree, roots[r], recursive, exts)])

\* ------------------------------------------------------------- core/mod.rs

RECURSIVE JoinWith(_, _)
\* exts.join(sep)
JoinWith(parts, sep) ==
    IF parts = <<>> THEN <<>>
    ELSE IF Len(parts) = 1 THEN parts[1]
    ELSE (parts[1] \o sep) \o JoinWith(Tail(parts), sep)

\* ScannerBuilder::extensions: the mask the builder is left with, None for
\* no extension, "*.ext" for one, "*.{a,b,c}" for several
extensions(exts) ==
    IF exts = <<>> THEN None
    ELSE IF Len(exts) = 1 THEN Some(<<"*", ".">> \o exts[1])
    ELSE Some((<<"*", ".", "{">> \o JoinWith(exts, <<",">>)) \o <<"}">>)

\* ------------------------------------------------------------------ lib.rs

DigitChar(d) == CHOOSE c \in Digits : DigitVal(c) = d

RECURSIVE Decimal(_)
\* the decimal digits of n >= 0
Decimal(n) ==
    IF n < 10 THEN <<DigitChar(n)>> ELSE Decimal(n \div 10) \o <<DigitChar(n % 10)>>

\* frame.to_string()
to_string(frame) ==
    IF frame < 0 THEN <<"-">> \o Decimal(0 - frame) ELSE Decimal(frame)

\* format!("{:0width$}", frame): zeros between the sign and the digits up to
\* the width
ZeroPadded(frame, width) ==
    LET sign   == IF frame < 0 THEN <<"-">> ELSE <<>>
        digits == Decimal(IF frame < 0 THEN 0 - frame ELSE frame)
        fill   == width - Len(sign) - Len(digits)
    IN  (sign \o Repeat("0", IF fill > 0 THEN fill ELSE 0)) \o digits

RECURSIVE Replace(_, _, _)
\* str::replace: every non-overlapping match of `from`, left to right
Replace(s, from, to) ==
    IF Len(s) < Len(from) THEN s
    ELSE IF SubSeq(s, 1, Len(from)) = from
         THEN to \o Replace(SubSeq(s, Len(from) + 1, Len(s)), from, to)
         ELSE <<Head(s)>> \o Replace(Tail(s), from, to)

\* PySeq::format_frame
format_frame(seq, frame) ==
    IF seq.padding >= 2
    THEN Replace(seq.pattern, Repeat("#", seq.padding), ZeroPadded(frame, seq.padding))
    ELSE Replace(seq.pattern, <<"@">>, to_string(frame))

RECURSIVE BinarySearch(_, _, _, _)
\* indices.binary_search(&frame).is_ok() on the 0-based range lo..hi
BinarySearch(indices, frame, lo, hi) ==
    IF lo >= hi THEN FALSE
    ELSE LET mid == lo + ((hi - lo) \div 2)
         IN  IF indices[mid + 1] = frame THEN TRUE
             ELSE IF indices[mid + 1] < frame
                  THEN BinarySearch(indices, frame, mid + 1, hi)
                  ELSE BinarySearch(indices, frame, lo, mid)

\* PySeq::get_file
get_file(seq, frame) ==
    IF BinarySearch(seq.indices, frame, 0, Len(seq.indices))
    THEN Some(format_frame(seq, frame))
    ELSE None

\* PySeq::is_complete
is_complete(seq) == seq.missed = <<>>

MAX_EXPAND == 1000000

\* mutant: a range of exactly MAX_EXPAND frames is refused
ExceedsExpandFrom(count) == count >= MAX_EXPAND

\* `count > MAX_EXPAND`
ExceedsExpand(count) == count > MAX_EXPAND

\* the range an expansion iterates: start..=end
ExpandRange(seq) == <<seq.start, seq.end>>

\* PySeq::expand.  Err is [ok |-> FALSE].  Ok(v) is [ok |-> TRUE, over |-> r]:
\* v is the collected map of format_frame over the inclusive range r, and it
\* is kept as that range, since a Vec of MAX_EXPAND strings is beyond what a
\* state can hold; PathCount and PathAt give its length and its elements.
\* start and end are frame values of one Sequence, 0 <= start <= end, so
\* saturating_sub is the plain difference; saturating_add differs from + only
\* at i64::MAX, far above MAX_EXPAND.
expand(seq) ==
    LET count == (seq.end - seq.start) + 1
    IN  IF ExceedsExpand(count)
        THEN [ok |-> FALSE]
        ELSE [ok |-> TRUE, over |-> ExpandRange(seq)]

\* the length of the Vec an Ok of expand holds: the length of lo..=hi
PathCount(out) ==
    IF out.over[1] > out.over[2] THEN 0 ELSE (out.over[2] - out.over[1]) + 1

\* element k (from 1) of the Vec an Ok of expand holds
PathAt(seq, out, k) == format_frame(seq, out.over[1] + (k - 1))

\* ------------------------------------------------------------- the inputs

MaxFiles == 4

\* the batches of SpecFrames are shorter: their Sequences hold the long
\* `missed` lists
MaxFrameFiles == 3

\* one directory listing or caller-made batch: distinct paths in any order
Batches(universe, n) ==
    UNION {{b \in [1..k -> universe] : \A i, j \in 1..k : i # j => b[i] # b[j]} :
              k \in 0..n}

Dir == <<"/", "d", "/">>

WinDir == <<"c", ":", "\\", "d", "\\">>

Ext == <<".", "x">>

\* The batches of Spec.  In /d/: a name without digits, the two-group
\* names 1a1 1a2 2a1 2a2 (anchors and frames), and 1a@ @a2 (one digit group
\* beside a literal '@', same mask as the two-group names).  In c:\d\: the
\* frame 1 written as 1 and as 01, and 02.
GroupNames ==
    { <<"a">>,
      <<"1", "a", "1">>, <<"1", "a", "2">>, <<"2", "a", "1">>, <<"2", "a", "2">>,
      <<"1", "a", "@">>, <<"@", "a", "2">> }

WinNames == { <<"1">>, <<"0", "1">>, <<"0", "2">> }

GroupPaths ==
    {(Dir \o n) \o Ext : n \in GroupNames} \cup {(WinDir \o n) \o Ext : n \in WinNames}

\* digit runs of 20 characters: no i64 holds their value
Overlong9 == Repeat("9", Len(I64MaxDigits) + 1)

Overlong8 == Repeat("8", Len(I64MaxDigits) + 1)

\* The batches of SpecFrames: one-group names of /d/.  The frames 1, 2 (also
\* written 02), 5, 100005 and 100006 put differences of 1, of 3, of exactly
\* MAX_MISSED_GAP and of more between neighbours; two names do not parse.
FrameNames ==
    { <<"1">>, <<"2">>, <<"0", "2">>, <<"5">>,
      <<"1", "0", "0", "0", "0", "5">>, <<"1", "0", "0", "0", "0", "6">>,
      Overlong9, Overlong8 }

FramePaths == {(Dir \o n) \o Ext : n \in FrameNames}

\* The batches of SpecAnchors: names of /d/ without '@'.  Two-group names
\* with the anchors 1, 2 and 01, and two one-group names that do not parse.
AnchorNames ==
    { <<"1", "a", "1">>, <<"1", "a", "2">>, <<"2", "a", "1">>, <<"2", "a", "2">>,
      <<"0", "1", "a", "1">>, <<"0", "1", "a", "2">>,
      Overlong9, Overlong8 }

AnchorPaths == {(Dir \o n) \o Ext : n \in AnchorNames}

\* The batches of SpecMalformed, in /d/: the two-group names 1a1 1a2, one
\* whose second digit run fits no i64, 1a@ (one digit group, same mask),
\* and the one-group names 7, 8 and one that fits no i64
MalformedNames ==
    { <<"1", "a", "1">>, <<"1", "a", "2">>,
      <<"1", "a">> \o Overlong9,
      <<"1", "a", "@">>,
      <<"7">>, <<"8">>, Overlong8 }

MalformedPaths == {(Dir \o n) \o Ext : n \in MalformedNames}

MaxMalformedFiles == 4

\* The batches of SpecOrder, in /d/: the two-group names 01a01 01a02 and
\* 1a1 1a2, the name 01a@ (one digit group beside a literal '@', same mask
\* as the two-group names), and the one-group names 7, 8 and 08
OrderNames ==
    { <<"0", "1", "a", "0", "1">>, <<"0", "1", "a", "0", "2">>,
      <<"0", "1", "a", "@">>,
      <<"1", "a", "1">>, <<"1", "a", "2">>,
      <<"7">>, <<"8">>, <<"0", "8">> }

OrderPaths == {(Dir \o n) \o Ext : n \in OrderNames}

MaxOrderFiles == 3

\* The batches of SpecRoundTrip: one-group names without '@' or '#', in /d/
\* the frames 1 and 2 of width 1, 01 and 03 of width 2, 002 of width 3; in
\* c:\d\ the frames 1 and 2
RoundTripPaths ==
    {(Dir \o n) \o Ext :
        n \in {<<"1">>, <<"2">>, <<"0", "1">>, <<"0", "3">>, <<"0", "0", "2">>}}
    \cup {(WinDir \o n) \o Ext : n \in {<<"1">>, <<"2">>}}

MaxRoundTripFiles == 3

\* The batches of SpecUnpadded: the names of test_group_seqs_unpadded and
\* one name of another shape
Stem == <<"i", "m", "g", "_">>

UnpaddedNames ==
    { Stem \o <<"1">>, Stem \o <<"2">>, Stem \o <<"9">>,
      Stem \o <<"1", "0">>, Stem \o <<"1", "1">>, Stem \o <<"1", "0", "0">> }

UnpaddedPaths ==
    {(Dir \o n) \o Ext : n \in UnpaddedNames \cup {<<"i", "m", "_", "1">>}}

MaxUnpadded == 6

\* The batches of SpecGetFile: one-group names of /d/ of width 1 (1 2 4), of
\* width 2 (01 03), and with a literal '@' or '#' before the frame (@1 @2,
\* ##01 ##03)
GetFileNames ==
    { <<"1">>, <<"2">>, <<"4">>, <<"0", "1">>, <<"0", "3">>,
      <<"@", "1">>, <<"@", "2">>,
      <<"#", "#", "0", "1">>, <<"#", "#", "0", "3">> }

GetFilePaths == {(Dir \o n) \o Ext : n \in GetFileNames}

MaxApiFiles == 3

\* The batches of SpecExpand: frames 1, 2 and 4, the frame 03 of width 2, and
\* the frame 1000001, which ends a range of MAX_EXPAND frames from 2 and of
\* one more from 1
ExpandNames ==
    { <<"1">>, <<"2">>, <<"4">>, <<"0", "3">>,
      <<"1", "0", "0", "0", "0", "0", "1">> }

ExpandPaths == {(Dir \o n) \o Ext : n \in ExpandNames}

MaxExpandFiles == 3

\* how many leading paths of an expansion are compared one by one
MaxCompared == 8

\* The batches of SpecParse: every string over these characters
PathChars == {"/", "\\", ".", ":", "c", "1"}

MaxPathLen == 5

ParsePaths == UNION {[1..k -> PathChars] : k \in 0..MaxPathLen}

\* The trees and arguments of the scans.  Directory paths:
DirR == <<"/", "r">>

DirRA == <<"/", "r", "/", "a">>

DirRAB == <<"/", "r", "/", "a", "/", "b">>

DirRH == <<"/", "r", "/", ".", "h">>

DirS == <<"/", "s">>

\* a root that does not exist
DirM == <<"/", "m">>

\* how a directory can be met: readable; unreadable; readable when walked
\* and gone when listed
Access == { [walk |-> TRUE, list |-> TRUE], [walk |-> FALSE, list |-> FALSE],
            [walk |-> TRUE, list |-> FALSE] }

OnDisk(access, files) == [walk |-> access.walk, list |-> access.list, files |-> files]

\* The scans of SpecScan: /r holds 1.x 2.x 3.x a1.x a2.x (Sequences of 3 and
\* of 2 indices), /r/a holds 1.x 2.x, /s holds 7.x 8.x; each directory is met
\* in every way; one root, two roots, and a missing root beside a present one
ScanTrees ==
    { (DirR :> OnDisk(ar, << <<"1", ".", "x">>, <<"2", ".", "x">>, <<"3", ".", "x">>,
                             <<"a", "1", ".", "x">>, <<"a", "2", ".", "x">> >>))
      @@ (DirRA :> OnDisk(aa, << <<"1", ".", "x">>, <<"2", ".", "x">> >>))
      @@ (DirS :> OnDisk(as, << <<"7", ".", "x">>, <<"8", ".", "x">> >>)) :
        ar \in Access, aa \in Access, as \in Access }

MaxMinLen == 3

ScanConfigs ==
    [roots : {<<DirR>>, <<DirR, DirS>>, <<DirM, DirR>>},
     recursive : BOOLEAN, mask : {None}, min_len : 1..MaxMinLen]

\* The scans of SpecMerge: the trees of SpecScan, scanned from two roots
\* that are apart, nested, or the same
MergeConfigs ==
    [roots : {<<DirR, DirS>>, <<DirR, DirRA>>, <<DirR, DirR>>},
     recursive : BOOLEAN, mask : {None}, min_len : 1..2]

\* The scans of SpecMask: /r, readable, holds a1.x a2.x b1.x a1.y and the
\* directory /r/a, met in every way, which holds a1.x; the masks are none,
\* an exact name, a name with '?', patterns with '*', and a pattern with an
\* unclosed bracket
MaskTrees ==
    { (DirR :> OnDisk([walk |-> TRUE, list |-> TRUE],
                      << <<"a", "1", ".", "x">>, <<"a", "2", ".", "x">>,
                         <<"b", "1", ".", "x">>, <<"a", "1", ".", "y">> >>))
      @@ (DirRA :> OnDisk(aa, << <<"a", "1", ".", "x">> >>)) : aa \in Access }

Masks ==
    { None,
      Some(<<"a", "1", ".", "x">>),
      Some(<<"a", "?", ".", "x">>),
      Some(<<"a", "*">>),
      Some(<<"*", "?", ".", "x">>),
      Some(<<"[", "*">>) }

MaskConfigs ==
    [roots : {<<DirR>>}, recursive : BOOLEAN, mask : Masks, min_len : 1..2]

\* The scans of SpecDirs: /r with the directories a, a/b and .h; /r/a/b
\* holds 1.x 2.x, the others no file; every directory readable or not; the
\* root is /r, /r/a or missing
DirTrees ==
    { (DirR :> OnDisk(ar, <<>>)) @@ (DirRA :> OnDisk(aa, <<>>))
      @@ (DirRAB :> OnDisk(ab, << <<"1", ".", "x">>, <<"2", ".", "x">> >>))
      @@ (DirRH :> OnDisk(ah, <<>>)) :
        ar \in Access, aa \in Access, ab \in Access, ah \in Access }

DirConfigs ==
    [roots : {<<DirR>>, <<DirRA>>, <<DirM>>},
     recursive : BOOLEAN, mask : {None}, min_len : {2}]

\* The scans of SpecBuilder: Scanner::path(/r) with extensions(exts), then
\* recursive(..), min_len(..) and scan().  /r holds 1.x 2.x 1.y 2.y 3.y 1.z,
\* /r/a, met in every way, holds 1.x 2.x; exts has no, one, two or three
\* entries
BuilderTrees ==
    { (DirR :> OnDisk([walk |-> TRUE, list |-> TRUE],
                      << <<"1", ".", "x">>, <<"2", ".", "x">>, <<"1", ".", "y">>,
                         <<"2", ".", "y">>, <<"3", ".", "y">>, <<"1", ".", "z">> >>))
      @@ (DirRA :> OnDisk(aa, << <<"1", ".", "x">>, <<"2", ".", "x">> >>)) :
      aa \in Access }

BuilderExts ==
    { <<>>, << <<"x">> >>, << <<"y">> >>, << <<"x">>, <<"y">> >>,
      << <<"x">>, <<"y">>, <<"z">> >> }

BuilderConfigs ==
    { [roots |-> <<DirR>>, recursive |-> rec, mask |-> extensions(exts),
       min_len |-> len, exts |-> exts] :
      rec \in BOOLEAN, len \in 1..2, exts \in BuilderExts }

\* The calls of SpecFiles.  /r holds a.jpg b.JPG c.jpeg d.tif e.tiff, f
\* without extension and the dot-file .k.jpg; /r/a (readable or not) holds
\* g.jp2, the dot-directory /r/.h holds h.jpg, /s holds s.png; /m does not
\* exist.  exts: none, plain entries in both cases, wildcard entries.
FileTrees ==
    { (DirR :> [walk |-> TRUE, list |-> TRUE,
                files |-> << <<"a", ".", "j", "p", "g">>, <<"b", ".", "J", "P", "G">>,
                             <<"c", ".", "j", "p", "e", "g">>, <<"d", ".", "t", "i", "f">>,
                             <<"e", ".", "t", "i", "f", "f">>, <<"f">>,
                             <<".", "k", ".", "j", "p", "g">> >>])
      @@ (DirRA :> [walk |-> aa, list |-> aa,
                    files |-> << <<"g", ".", "j", "p", "2">> >>])
      @@ (DirRH :> [walk |-> TRUE, list |-> TRUE,
                    files |-> << <<"h", ".", "j", "p", "g">> >>])
      @@ (DirS :> [walk |-> TRUE, list |-> TRUE,
                   files |-> << <<"s", ".", "p", "n", "g">> >>]) :
      aa \in BOOLEAN }

ExtLists ==
    { <<>>, << <<"j", "p", "g">> >>, << <<"J", "P", "G">> >>, << <<"t", "i", "f">> >>,
      << <<"j", "p", "*">> >>, << <<"J", "P", "*">> >>, << <<"t", "i", "f", "?">> >>,
      << <<"p", "n", "g">>, <<"j", "p", "*">> >> }

FileConfigs ==
    [roots : {<<DirR>>, <<DirR, DirS>>, <<DirRA, DirR>>, <<DirM, DirS>>},
     recursive : BOOLEAN, exts : ExtLists]

\* ------------------------------------------------------- the state machine

InitOn(batches) ==
    /\ pc = "listed"
    /\ paths \in batches
    /\ flist = <<>>
    /\ by_hash = <<>>
    /\ sub_groups = <<>>
    /\ seqs = <<>>
    /\ built = <<>>
    /\ reply = <<>>
    /\ fs = <<>>
    /\ cfg = <<>>
    /\ task = <<>>
    /\ scan_result = <<>>
    /\ log = <<>>

Init == InitOn(Batches(GroupPaths, MaxFiles))

\* scan.rs: files.into_iter().map(File::new).collect()
NewFiles ==
    /\ pc = "listed"
    /\ flist' = [i \in 1..Len(paths) |-> File_new(paths[i])]
    /\ pc' = "parsed"
    /\ UNCHANGED <<paths, by_hash, sub_groups, seqs, built, reply>>
    /\ UNCHANGED scanvars

\* Seq::group_seqs(&mut flist).  by_hash and sub_groups keep the values the
\* function's locals had; built[i] names the sub-group seqs[i] was made from.
GroupSeqs ==
    /\ pc = "parsed"
    /\ LET buckets == BucketsOf(flist)
           subs    == SubGroupsOf(buckets)
       IN  /\ by_hash' = buckets
           /\ sub_groups' = subs
           /\ \E ord \in VisitOrders(Emitting(subs)) :
                /\ built' = ord
                /\ seqs' = [i \in DOMAIN ord |->
                              from_files(subs[ord[i][1]].groups[ord[i][2]],
                                         subs[ord[i][1]].frame_grp_idx)[1]]
    /\ flist' = <<>>
    /\ pc' = "done"
    /\ UNCHANGED <<paths, reply>>
    /\ UNCHANGED scanvars

Next == NewFiles \/ GroupSeqs

Spec == Init /\ [][Next]_vars

InitFrames == InitOn(Batches(FramePaths, MaxFrameFiles))

SpecFrames == InitFrames /\ [][Next]_vars

InitAnchors == InitOn(Batches(AnchorPaths, MaxFiles))

SpecAnchors == InitAnchors /\ [][Next]_vars

\* one path at a time
InitParse == InitOn({<<p>> : p \in ParsePaths})

SpecParse == InitParse /\ [][Next]_vars

InitMalformed == InitOn(Batches(MalformedPaths, MaxMalformedFiles))

SpecMalformed == InitMalformed /\ [][Next]_vars

InitOrder == InitOn(Batches(OrderPaths, MaxOrderFiles))

SpecOrder == InitOrder /\ [][Next]_vars

InitUnpadded == InitOn(Batches(UnpaddedPaths, MaxUnpadded))

SpecUnpadded == InitUnpadded /\ [][Next]_vars

\* the frames get_file is asked for
FrameArgs == -1..5

\* PySeq::get_file(frame) on a Seq of the result
GetFile ==
    /\ pc = "done"
    /\ \E i \in DOMAIN seqs, frame \in FrameArgs :
          reply' = [op |-> "get_file", seq |-> i, frame |-> frame,
                    out |-> get_file(seqs[i], frame)]
    /\ UNCHANGED <<pc, paths, flist, by_hash, sub_groups, seqs, built>>
    /\ UNCHANGED scanvars

\* PySeq::expand() on a Seq of the result
Expand ==
    /\ pc = "done"
    /\ \E i \in DOMAIN seqs :
          reply' = [op |-> "expand", seq |-> i, out |-> expand(seqs[i])]
    /\ UNCHANGED <<pc, paths, flist, by_hash, sub_groups, seqs, built>>
    /\ UNCHANGED scanvars

NextGetFile == Next \/ GetFile

InitGetFile == InitOn(Batches(GetFilePaths, MaxApiFiles))

SpecGetFile == InitGetFile /\ [][NextGetFile]_vars

InitRoundTrip == InitOn(Batches(RoundTripPaths, MaxRoundTripFiles))

SpecRoundTrip == InitRoundTrip /\ [][NextGetFile]_vars

\* PySeq::is_complete() on a Seq of the result
IsComplete ==
    /\ pc = "done"
    /\ \E i \in DOMAIN seqs :
          reply' = [op |-> "is_complete", seq |-> i, out |-> is_complete(seqs[i])]
    /\ UNCHANGED <<pc, paths, flist, by_hash, sub_groups, seqs, built>>
    /\ UNCHANGED scanvars

NextComplete == Next \/ IsComplete

InitComplete == InitOn(Batches(FramePaths, MaxFrameFiles))

SpecComplete == InitComplete /\ [][NextComplete]_vars

NextExpand == Next \/ Expand

InitExpand == InitOn(Batches(ExpandPaths, MaxExpandFiles))

SpecExpand == InitExpand /\ [][NextExpand]_vars

\* Scanner::get_seqs(roots, recursive, mask, min_len) on a tree: one
\* scan::get_seqs invocation per root, none started
InitScanOn(trees, configs) ==
    /\ pc = "scan"
    /\ paths = <<>>
    /\ flist = <<>>
    /\ by_hash = <<>>
    /\ sub_groups = <<>>
    /\ seqs = <<>>
    /\ built = <<>>
    /\ reply = <<>>
    /\ fs \in trees
    /\ cfg \in configs
    /\ task = [r \in DOMAIN cfg.roots |->
                  [phase |-> "new", folders |-> <<>>, units |-> <<>>,
                   found_seqs |-> 0, pending |-> <<>>, message |-> 0,
                   out |-> None]]
    /\ scan_result = None
    /\ log = <<>>

\* scan::get_seqs of root r, Phase 1: scan_dirs(root, recursive)?
ScanDirs(r) ==
    /\ pc = "scan"
    /\ task[r].phase = "new"
    /\ task' = [task EXCEPT ![r].phase = "walked",
                            ![r].folders = scan_dirs(fs, cfg.roots[r], cfg.recursive)]
    /\ UNCHANGED <<fs, cfg, scan_result, log>>
    /\ UNCHANGED groupvars

\* ThreadPoolBuilder .. build(): the pool, or Err returned by get_seqs
BuildPool(r) ==
    /\ pc = "scan"
    /\ task[r].phase = "walked"
    /\ \E pool_ok \in BOOLEAN :
          task' = IF pool_ok
                  THEN [task EXCEPT ![r].phase = "pooled",
                                    ![r].units = [k \in DOMAIN task[r].folders |-> None],
                                    ![r].pending = [k \in DOMAIN task[r].folders |-> None]]
                  ELSE [task EXCEPT ![r].phase = "returned",
                                    ![r].out = Some([ok |-> FALSE,
                                                     err |-> "Failed to create thread pool"])]
    /\ UNCHANGED <<fs, cfg, scan_result, log>>
    /\ UNCHANGED groupvars

\* the per-folder closure on folder k of root r, run by a worker of the
\* pool: scan_files_glob, File::new, group_seqs, the min_len filter and
\* found_seqs.fetch_add, whose return value plus seq_count the worker
\* holds (pending) until its pb.set_message; a folder with nothing to
\* report returns at once
ScanFolder(r, k) ==
    /\ pc = "scan"
    /\ task[r].phase = "pooled"
    /\ task[r].units[k] = None
    /\ LET folder  == task[r].folders[k]
           listing == scan_files_glob(fs, folder, cfg.mask)
       IN  /\ \E grouped \in (IF listing.ok /\ listing.files # <<>>
                              THEN GroupResults([i \in DOMAIN listing.files |->
                                                    File_new(listing.files[i])])
                              ELSE {<<>>}) :
                 LET unit == FolderUnit(listing, grouped, cfg.min_len)
                     seq_count == Len(unit.filtered)
                 IN  task' = [task EXCEPT
                                 ![r].units[k] = Some(unit),
                                 ![r].found_seqs = @ + seq_count,
                                 ![r].pending[k] =
                                     IF seq_count > 0
                                     THEN Some(task[r].found_seqs + seq_count)
                                     ELSE None]
           /\ log' = Append(log, <<r, folder>>)
    /\ UNCHANGED <<fs, cfg, scan_result>>
    /\ UNCHANGED groupvars

\* the rest of the closure of a folder that found sequences:
\* pb.set_message(format!("{} seqs found", prev + seq_count)), then the
\* closure returns
SetMessage(r, k) ==
    /\ pc = "scan"
    /\ task[r].phase = "pooled"
    /\ task[r].pending[k] # None
    /\ task' = [task EXCEPT ![r].message = task[r].pending[k][1],
                            ![r].pending[k] = None]
    /\ UNCHANGED <<fs, cfg, scan_result, log>>
    /\ UNCHANGED groupvars

\* (mutant of AllReturned) collects as soon as every folder has a result,
\* without joining the workers still inside their closure
AllReturnedUnjoined(r) ==
    \A k \in DOMAIN task[r].units : task[r].units[k] # None

\* every closure of par_iter has returned
AllReturned(r) ==
    \A k \in DOMAIN task[r].units :
        task[r].units[k] # None /\ task[r].pending[k] = None

\* the end of pool.install: every folder is done, get_seqs returns Ok(all_seqs)
Collect(r) ==
    /\ pc = "scan"
    /\ task[r].phase = "pooled"
    /\ AllReturned(r)
    /\ task' = [task EXCEPT
                   ![r].phase = "returned",
                   ![r].out = Some([ok |-> TRUE, seqs |-> AllSeqs(task[r].units)])]
    /\ UNCHANGED <<fs, cfg, scan_result, log>>
    /\ UNCHANGED groupvars

\* the value Scanner::get_seqs pushes to errors for root r: "{root}: {e}"
RootError(r) == <<cfg.roots[r], task[r].out[1].err>>

\* Scanner::get_seqs after the roots returned: seqs extended and errors
\* pushed root by root
Merge ==
    /\ pc = "scan"
    /\ scan_result = None
    /\ \A r \in DOMAIN task : task[r].phase = "returned"
    /\ scan_result' =
          Some([seqs   |-> Flatten([r \in DOMAIN task |->
                                      IF task[r].out[1].ok THEN task[r].out[1].seqs
                                      ELSE <<>>]),
                errors |-> Flatten([r \in DOMAIN task |->
                                      IF task[r].out[1].ok THEN <<>>
                                      ELSE <<RootError(r)>>])])
    /\ UNCHANGED <<fs, cfg, task, log>>
    /\ UNCHANGED groupvars

NextScan ==
    \/ \E r \in DOMAIN task : ScanDirs(r)
    \/ \E r \in DOMAIN task : BuildPool(r)
    \/ \E r \in DOMAIN task : \E k \in DOMAIN task[r].units : ScanFolder(r, k)
    \/ \E r \in DOMAIN task : \E k \in DOMAIN task[r].units : SetMessage(r, k)
    \/ \E r \in DOMAIN task : Collect(r)
    \/ Merge

InitScan == InitScanOn(ScanTrees, ScanConfigs)

SpecScan == InitScan /\ [][NextScan]_vars

\* scan_files(roots, recursive, exts) on a tree, not yet called
InitFiles ==
    /\ pc = "files"
    /\ paths = <<>>
    /\ flist = <<>>
    /\ by_hash = <<>>
    /\ sub_groups = <<>>
    /\ seqs = <<>>
    /\ built = <<>>
    /\ reply = <<>>
    /\ fs \in FileTrees
    /\ cfg \in FileConfigs
    /\ task = <<>>
    /\ scan_result = None
    /\ log = <<>>

\* the call of scan_files
ScanFiles ==
    /\ pc = "files"
    /\ reply' = [op |-> "scan_files",
                 out |-> scan_files(fs, cfg.roots, cfg.recursive, cfg.exts)]
    /\ pc' = "found"
    /\ UNCHANGED <<paths, flist, by_hash, sub_groups, seqs, built>>
    /\ UNCHANGED scanvars

NextFiles == ScanFiles

SpecFiles == InitFiles /\ [][NextFiles]_vars

InitBuilder == InitScanOn(BuilderTrees, BuilderConfigs)

SpecBuilder == InitBuilder /\ [][NextScan]_vars

InitMerge == InitScanOn(ScanTrees, MergeConfigs)

SpecMerge == InitMerge /\ [][NextScan]_vars

InitMask == InitScanOn(MaskTrees, MaskConfigs)

SpecMask == InitMask /\ [][NextScan]_vars

InitDirs == InitScanOn(DirTrees, DirConfigs)

SpecDirs == InitDirs /\ [][NextScan]_vars

\* ------------------------------------------------------------- properties

\* the files of the sub-group seqs[i] was built from
Members(i) == sub_groups[built[i][1]].groups[built[i][2]]

\* the frame group index of the bucket of seqs[i]
FrameIdx(i) == sub_groups[built[i][1]].frame_grp_idx

\* C1 -- every emitted Sequence has at least 2 indices.
C1_AtLeastTwoIndices ==
    \A i \in DOMAIN seqs : Len(seqs[i].indices) >= 2

\* C2 -- drive + directory + name + extension of a parsed path is the path
\* itself, character by character, and every listed path is parsed.
C2_RoundTrip ==
    pc = "parsed" =>
        /\ Len(flist) = Len(paths)
        /\ \A i \in DOMAIN flist :
              ((flist[i].drive \o flist[i].path) \o flist[i].name) \o flist[i].ext
                 = paths[i]

\* a path with a drive, both separators (one of them repeated or mixed) and
\* an extension was parsed
C2_Witness ==
    /\ pc = "parsed"
    /\ \E i \in DOMAIN flist :
          /\ flist[i].drive # <<>>
          /\ "/" \in Range(flist[i].path)
          /\ "\\" \in Range(flist[i].path)
          /\ flist[i].name # <<>>
          /\ flist[i].ext # <<>>

\* the name of f around its digit group idx: the text before it and the text
\* after it (the whole name when f has no such group)
AroundGroup(f, idx) ==
    IF idx >= Len(f.num_groups)
    THEN <<f.name>>
    ELSE <<Slice(f.name, 0, f.num_groups[idx + 1][1]),
           Slice(f.name, f.num_groups[idx + 1][1] + f.num_groups[idx + 1][2],
                 Len(f.name))>>

\* C3 -- any two members of one emitted Sequence have the same drive,
\* directory and extension, the same number of digit groups, a frame group,
\* and the same name outside the frame group (so the same non-digit text and
\* the same anchor texts).  Stated for the Sequences of at least 2 indices,
\* the ones C1 allows.
C3_MembersDifferOnlyInFrame ==
    \A i \in {j \in DOMAIN seqs : Len(seqs[j].indices) >= 2} :
        \A m, n \in DOMAIN Members(i) :
            LET f == Members(i)[m]
                g == Members(i)[n]
            IN  /\ f.drive = g.drive
                /\ f.path = g.path
                /\ f.ext = g.ext
                /\ Len(f.num_groups) = Len(g.num_groups)
                /\ FrameIdx(i) < Len(f.num_groups)
                /\ AroundGroup(f, FrameIdx(i)) = AroundGroup(g, FrameIdx(i))

\* the integer values of the frame slices of the members of seqs[i] that
\* parse
ParsedFrames(i) ==
    UNION {Range(FrameValue(Members(i)[m], FrameIdx(i))) : m \in DOMAIN Members(i)}

\* C4 -- indices is strictly ascending and holds exactly the frame values of
\* the members that parse; start is its first and least element, end its
\* last and greatest.
C4_IndicesSortedExact ==
    \A i \in DOMAIN seqs :
        LET inds == seqs[i].indices
        IN  /\ inds # <<>>
            /\ \A k \in 1..(Len(inds) - 1) : inds[k] < inds[k + 1]
            /\ Range(inds) = ParsedFrames(i)
            /\ seqs[i].start = inds[1]
            /\ seqs[i].end = inds[Len(inds)]
            /\ \A v \in ParsedFrames(i) : seqs[i].start <= v /\ v <= seqs[i].end

\* a Sequence of two members with one frame value and a third member more
\* than the gap ceiling away
C4_Witness ==
    \E i \in DOMAIN seqs :
        /\ Len(Members(i)) = 3
        /\ Len(seqs[i].indices) = 2
        /\ seqs[i].end - seqs[i].start > 100000

RECURSIVE EnumerableCount(_, _)
\* the number of integers strictly inside the consecutive pairs of inds, from
\* pair j on, whose difference is over 1 and at most 100000
EnumerableCount(inds, j) ==
    IF j >= Len(inds) THEN 0
    ELSE (IF inds[j + 1] - inds[j] > 1 /\ inds[j + 1] - inds[j] <= 100000
          THEN inds[j + 1] - inds[j] - 1 ELSE 0) + EnumerableCount(inds, j + 1)

\* C5 -- missed is ascending, each of its elements lies strictly inside a
\* consecutive pair of indices whose difference is at most 100000, and it
\* has as many elements as these pairs enclose: it is exactly the list of
\* the integers inside the pairs of difference 2..100000.
C5_MissedExact ==
    \A i \in DOMAIN seqs :
        LET inds   == seqs[i].indices
            missed == seqs[i].missed
        IN  /\ \A k \in 1..(Len(missed) - 1) : missed[k] < missed[k + 1]
            /\ \A k \in DOMAIN missed :
                  \E j \in 1..(Len(inds) - 1) :
                      /\ inds[j] < missed[k]
                      /\ missed[k] < inds[j + 1]
                      /\ inds[j + 1] - inds[j] <= 100000
            /\ Len(missed) = EnumerableCount(inds, 1)
            /\ inds = <<1, 2, 5>> => missed = <<3, 4>>
            /\ inds = <<1, 100006>> => missed = <<>>

\* a Sequence with one pair that is enumerated and one that is too far apart
C5_Witness ==
    \E i \in DOMAIN seqs :
        /\ seqs[i].indices = <<1, 5, 100006>>
        /\ seqs[i].missed = <<2, 3, 4>>

\* a Sequence whose gap is exactly the ceiling
C5_WitnessCeiling ==
    \E i \in DOMAIN seqs :
        /\ seqs[i].indices = <<5, 100005>>
        /\ Len(seqs[i].missed) = 99999

\* the frame-group widths of the members of seqs[i] whose frame slice parses
SurvivorWidths(i) ==
    {Members(i)[m].num_groups[FrameIdx(i) + 1][2] :
        m \in {n \in DOMAIN Members(i) : FrameValue(Members(i)[n], FrameIdx(i)) # None}}

\* C6 -- padding is the common frame-group width of the members whose frame
\* slice parses, and 0 when their widths differ.  Stated for the Sequences
\* of at least 2 indices, the ones C1 allows.
C6_PaddingOfSurvivors ==
    \A i \in {j \in DOMAIN seqs : Len(seqs[j].indices) >= 2} :
        seqs[i].padding = IF Cardinality(SurvivorWidths(i)) = 1
                          THEN CHOOSE w \in SurvivorWidths(i) : TRUE
                          ELSE 0

\* the number of distinct integer values the members of a bucket have at
\* digit-group position j
DistinctAt(files, j) ==
    Cardinality({v \in UNION {Range(FrameValue(files[m], j)) : m \in DOMAIN files} : TRUE})

\* the digit-group positions of a bucket
Positions(files) == 0..(Max({Len(files[m].num_groups) : m \in DOMAIN files}) - 1)

\* C7 -- the frame group index of a bucket is a position with the greatest
\* number of distinct values, and the rightmost such position.
C7_FrameGroupSelection ==
    \A h \in DOMAIN sub_groups :
        LET files == by_hash[h]
            idx   == sub_groups[h].frame_grp_idx
            best  == DistinctAt(files, idx)
        IN  /\ idx \in Positions(files)
            /\ \A j \in Positions(files) :
                  /\ DistinctAt(files, j) <= best
                  /\ j > idx => DistinctAt(files, j) < best

\* a bucket in which two positions tie with 2 distinct values each
C7_Witness ==
    \E h \in DOMAIN sub_groups :
        /\ sub_groups[h].frame_grp_idx = 1
        /\ DistinctAt(by_hash[h], 0) = 2
        /\ DistinctAt(by_hash[h], 1) = 2

\* a bucket in which the leftmost position has more distinct values
C7_WitnessLeft ==
    \E h \in DOMAIN sub_groups :
        /\ sub_groups[h].frame_grp_idx = 0
        /\ DistinctAt(by_hash[h], 0) = 2
        /\ DistinctAt(by_hash[h], 1) = 1

\* the literal texts of the digit groups of f other than group idx, by
\* position
AnchorTexts(f, idx) ==
    [j \in (0..(Len(f.num_groups) - 1)) \ {idx} |->
        Slice(f.name, f.num_groups[j + 1][1],
              f.num_groups[j + 1][1] + f.num_groups[j + 1][2])]

\* the sub-groups of a kept bucket partition it by the anchor texts
AnchorPartition(h) ==
    LET files  == by_hash[h]
        idx    == sub_groups[h].frame_grp_idx
        groups == sub_groups[h].groups
    IN  /\ \A m \in DOMAIN files :
              Cardinality({k \in DOMAIN groups : files[m] \in Range(groups[k])}) = 1
        /\ \A k \in DOMAIN groups : Range(groups[k]) \subseteq Range(files)
        /\ \A m, n \in DOMAIN files :
              (\E k \in DOMAIN groups :
                    files[m] \in Range(groups[k]) /\ files[n] \in Range(groups[k]))
                 <=> AnchorTexts(files[m], idx) = AnchorTexts(files[n], idx)

\* the number of Sequences made from sub-group k of bucket h
YieldOf(h, k) == Cardinality({i \in DOMAIN built : built[i] = <<h, k>>})

ShotPaths ==
    {(Dir \o n) \o Ext :
        n \in { <<"1", "a", "1">>, <<"1", "a", "2">>, <<"2", "a", "1">>, <<"2", "a", "2">> }}

\* the batch 1a1, 1a2, 2a1, 2a2 gives two Sequences of two frames
ShotExample ==
    (pc = "done" /\ Range(paths) = ShotPaths) =>
        /\ Len(seqs) = 2
        /\ \A i \in DOMAIN seqs : Len(seqs[i].indices) = 2
        /\ {built[i][2] : i \in DOMAIN built} = { <<"1">>, <<"2">> }

C8_WitnessPadded ==
    \E h \in DOMAIN sub_groups :
        { <<"0", "1">>, <<"1">> } \subseteq DOMAIN sub_groups[h].groups

\* C9 -- the pattern is drive, directory with '/' for every backslash, the
\* name of the first member with its frame group replaced by '@' (padding at
\* most 1) or by padding times '#', and the extension.
C9_Pattern ==
    \A i \in DOMAIN seqs :
        LET rep    == Members(i)[1]
            pad    == seqs[i].padding
            around == AroundGroup(rep, FrameIdx(i))
            holder == IF pad <= 1 THEN <<"@">> ELSE [k \in 1..pad |-> "#"]
            body   == IF Len(around) = 1 THEN around[1]
                      ELSE (around[1] \o holder) \o around[2]
            dir    == [k \in DOMAIN rep.path |->
                         IF rep.path[k] \in {"\\", "/"} THEN "/" ELSE rep.path[k]]
        IN  seqs[i].pattern = ((rep.drive \o dir) \o body) \o rep.ext

\* c:\d\01.x and c:\d\02.x give c:/d/##.x with padding 2
C9_Witness ==
    \E i \in DOMAIN seqs :
        /\ seqs[i].padding = 2
        /\ seqs[i].pattern = <<"c", ":", "/", "d", "/", "#", "#", ".", "x">>
        /\ "\\" \in Range(Members(i)[1].path)

\* /d/1a1.x and /d/1a2.x give /d/1a@.x with padding 1
C9_WitnessUnpadded ==
    \E i \in DOMAIN seqs :
        /\ seqs[i].padding = 1
        /\ seqs[i].pattern = <<"/", "d", "/", "1", "a", "@", ".", "x">>
        /\ Members(i)[1].name = <<"1", "a", "1">>

\* C10 -- after group the input is empty; no bucket holds a file without
\* digit groups; every member of a Sequence is a listed file with a digit
\* group, and at least 2 listed files with a digit group have its drive,
\* directory, mask and extension; a batch with at most one digit-bearing
\* file gives no Sequence.
C10_Drops ==
    pc = "done" =>
        LET listed  == [j \in DOMAIN paths |-> File_new(paths[j])]
            bearing == {j \in DOMAIN listed : listed[j].num_groups # <<>>}
            partners(f) ==
                {j \in bearing :
                    /\ listed[j].drive = f.drive
                    /\ listed[j].path = f.path
                    /\ listed[j].mask = f.mask
                    /\ listed[j].ext = f.ext}
        IN  /\ flist = <<>>
            /\ \A h \in DOMAIN by_hash :
                  \A m \in DOMAIN by_hash[h] : by_hash[h][m].num_groups # <<>>
            /\ \A i \in DOMAIN seqs :
                  \A m \in DOMAIN Members(i) :
                      /\ Members(i)[m].fpn \in Range(paths)
                      /\ Members(i)[m].num_groups # <<>>
                      /\ Cardinality(partners(Members(i)[m])) >= 2
            /\ Cardinality(bearing) <= 1 => seqs = <<>>

\* a batch with a digit-free file, a file alone in its bucket and a Sequence
C10_Witness ==
    /\ pc = "done"
    /\ Len(seqs) = 1
    /\ \E j \in DOMAIN paths : File_new(paths[j]).num_groups = <<>>
    /\ \E h \in DOMAIN by_hash : Len(by_hash[h]) = 1

RECURSIVE Shape(_, _)
\* the name with every maximal run of digits collapsed to the token "run",
\* read character by character; in_run tells that the previous character
\* was a digit
Shape(name, in_run) ==
    IF name = <<>> THEN <<>>
    ELSE IF Head(name) \in Digits
         THEN (IF in_run THEN <<>> ELSE <<"run">>) \o Shape(Tail(name), TRUE)
         ELSE <<Head(name)>> \o Shape(Tail(name), FALSE)

SixUnpadded == {(Dir \o n) \o Ext : n \in UnpaddedNames}

\* C11 -- two names that differ only in the digits and widths of their digit
\* runs have the same mask and, with equal drive, directory and extension,
\* the same signature; img_1, img_2, img_9, img_10, img_11 and img_100 of one
\* directory form exactly one Sequence with the indices 1 2 9 10 11 100,
\* start 1, end 100 and padding 0.
C11_MaskStability ==
    /\ \A i, j \in DOMAIN flist :
          Shape(flist[i].name, FALSE) = Shape(flist[j].name, FALSE) =>
             /\ flist[i].mask = flist[j].mask
             /\ (/\ flist[i].drive = flist[j].drive
                 /\ flist[i].path = flist[j].path
                 /\ flist[i].ext = flist[j].ext) => sig_hash(flist[i]) = sig_hash(flist[j])
    /\ (pc = "done" /\ Range(paths) = SixUnpadded) =>
          /\ Len(seqs) = 1
          /\ seqs[1].indices = <<1, 2, 9, 10, 11, 100>>
          /\ seqs[1].start = 1
          /\ seqs[1].end = 100
          /\ seqs[1].padding = 0

C11_Witness ==
    /\ pc = "done"
    /\ Range(paths) = SixUnpadded
    /\ Len(seqs) = 1
    /\ Len(seqs[1].indices) = 6

\* name as a string of one-character strings
RenderName ==
    <<"r", "e", "n", "d", "e", "r", "_", "0", "0", "0", "_", "1", "2", "3",
      "_", "4", "5">>

\* C12 -- digit_groups lists exactly the maximal runs of ASCII digits, left
\* to right: every entry fits inside the name and holds digits only, the
\* entries ascend by start offset without overlapping or touching, the
\* characters next to a run are not digits, and every digit of the name is
\* inside an entry; render_000_123_45 gives (7,3) (11,3) (15,2) and a name
\* without digits gives the empty list.
C12_DigitGroups ==
    /\ \A i \in DOMAIN flist :
          LET n == flist[i].name
              g == flist[i].num_groups
          IN  /\ \A k \in DOMAIN g :
                    /\ g[k][1] >= 0 /\ g[k][2] >= 1
                    /\ g[k][1] + g[k][2] <= Len(n)
                    /\ \A q \in (g[k][1] + 1)..(g[k][1] + g[k][2]) : n[q] \in Digits
                    /\ g[k][1] > 0 => n[g[k][1]] \notin Digits
                    /\ g[k][1] + g[k][2] < Len(n) => n[g[k][1] + g[k][2] + 1] \notin Digits
              /\ \A k \in 1..(Len(g) - 1) : g[k][1] + g[k][2] < g[k + 1][1]
              /\ \A q \in 1..Len(n) :
                    n[q] \in Digits =>
                       \E k \in DOMAIN g : g[k][1] < q /\ q <= g[k][1] + g[k][2]
              /\ (\A q \in 1..Len(n) : n[q] \notin Digits) => g = <<>>
    /\ extract_num_groups(RenderName) = << <<7, 3>>, <<11, 3>>, <<15, 2>> >>

C12_Witness ==
    /\ pc = "parsed"
    /\ Len(flist) = 1
    /\ Len(flist[1].num_groups) = 2
    /\ flist[1].num_groups[2][1] + flist[1].num_groups[2][2] = Len(flist[1].name)

\* the pattern of seqs[i] with the placeholder of its frame group replaced by
\* text: the first member's name around the frame group
Rendered(i, text) ==
    LET rep    == Members(i)[1]
        around == AroundGroup(rep, FrameIdx(i))
    IN  ((rep.drive \o ReplaceBackslash(rep.path))
            \o ((around[1] \o text) \o around[2])) \o rep.ext

\* frame >= 0 in decimal, filled with zeros on the left up to width
Padded(frame, width) ==
    LET d == Decimal(frame)
    IN  [k \in 1..(IF width > Len(d) THEN width - Len(d) ELSE 0) |-> "0"] \o d

\* C13 -- get_file returns a path exactly for the frames of indices; the path
\* is the pattern with its frame placeholder replaced by the frame, padded
\* with zeros to the width padding when padding >= 2 and bare otherwise.
C13_GetFile ==
    (reply # <<>> /\ reply.op = "get_file") =>
        LET s == seqs[reply.seq]
        IN  /\ reply.out # None <=> reply.frame \in Range(s.indices)
            /\ reply.out # None =>
                  reply.out[1] =
                     Rendered(reply.seq,
                              IF s.padding >= 2 THEN Padded(reply.frame, s.padding)
                              ELSE Decimal(reply.frame))

\* the positions of a Vec of n paths that are compared: all of them up to
\* MaxCompared, and the last two
Compared(n) == {k \in 1..n : k <= MaxCompared \/ k >= n - 1}

\* C14 -- expand fails and returns no paths when end - start + 1 exceeds
\* 1,000,000; otherwise it returns end - start + 1 paths, the k-th being the
\* path of the frame start + k - 1, missing frames included.
C14_Expand ==
    (reply # <<>> /\ reply.op = "expand") =>
        LET s     == seqs[reply.seq]
            count == (s.end - s.start) + 1
        IN  IF count > 1000000
            THEN DOMAIN reply.out = {"ok"} /\ ~reply.out.ok
            ELSE /\ reply.out.ok
                 /\ PathCount(reply.out) = count
                 /\ \A k \in Compared(count) :
                       PathAt(s, reply.out, k) =
                          Rendered(reply.seq,
                                   IF s.padding >= 2
                                   THEN Padded(s.start + (k - 1), s.padding)
                                   ELSE Decimal(s.start + (k - 1)))

\* /d/1.x and /d/4.x expand to four paths, two of them of missing frames
C14_Witness ==
    /\ reply # <<>> /\ reply.op = "expand"
    /\ seqs[reply.seq].indices = <<1, 4>>
    /\ seqs[reply.seq].missed = <<2, 3>>
    /\ reply.out.ok
    /\ PathCount(reply.out) = 4

\* frames 2 and 1000001: a range of exactly 1,000,000 frames is expanded
C14_WitnessCeiling ==
    /\ reply # <<>> /\ reply.op = "expand"
    /\ seqs[reply.seq].indices = <<2, 1000001>>
    /\ reply.out.ok

\* frames 1 and 1000001: a range of 1,000,001 frames is refused
C14_WitnessRefused ==
    /\ reply # <<>> /\ reply.op = "expand"
    /\ seqs[reply.seq].indices = <<1, 1000001>>
    /\ ~reply.out.ok

\* the (root, folder) units whose closure has run, and their locals
Units == {u \in UNION {{<<r, k>> : k \in DOMAIN task[r].units} : r \in DOMAIN task} :
             task[u[1]].units[u[2]] # None}

UnitOf(u) == task[u[1]].units[u[2]][1]

FolderOf(u) == task[u[1]].folders[u[2]]

\* the units whose directory could not be listed
FailedUnits == {u \in Units : ~UnitOf(u).listing.ok
                                /\ UnitOf(u).listing.err = "Failed to read dir"}

\* C15 -- when the listing of a directory fails during a scan, the error list
\* of the result holds an error string for that unit: at least as many
\* errors as failed units, so a non-empty list after any failure.
C15_UnitFailureReported ==
    scan_result # None =>
        /\ FailedUnits # {} => scan_result[1].errors # <<>>
        /\ Len(scan_result[1].errors) >= Cardinality(FailedUnits)

\* the directory a pattern lies in
DirOfPattern(pattern) == Slice(pattern, 0, RFind(pattern, {"/"})[1])

\* the Sequences of the result that lie in directory d
SeqsIn(d) ==
    SelectSeq(scan_result[1].seqs, LAMBDA q : DirOfPattern(q.pattern) = d)

\* the directories whose listing fails
Unlistable == {d \in DOMAIN fs : ~fs[d].list}

\* the tree without the directories whose listing fails
WithoutFailing == [d \in DOMAIN fs \ Unlistable |-> fs[d]]

\* the Sequences directory d gives on a tree: any grouping of its listing,
\* as a set, min_len applied
YieldOnTree(tree, d) ==
    LET listing == scan_files_glob(tree, d, cfg.mask)
        some    == CHOOSE g \in GroupResults([i \in DOMAIN listing.files |->
                                                 File_new(listing.files[i])]) : TRUE
    IN  {some[i] : i \in {j \in DOMAIN some : Len(some[j].indices) >= cfg.min_len}}

\* the roots whose get_seqs returned Ok
OkRoots == {r \in DOMAIN task : task[r].out # None /\ task[r].out[1].ok}

\* C16 -- a directory whose listing fails contributes no Sequence and is
\* handed to the listing once; every other directory of a root that
\* returned contributes exactly the Sequences it gives on the tree without
\* the failing directories; nothing else is in the result.
C16_FailureIsolation ==
    /\ \A i, j \in DOMAIN log : i # j => log[i] # log[j]
    /\ scan_result # None =>
          /\ \A r \in OkRoots : \A k \in DOMAIN task[r].folders :
                LET d == task[r].folders[k]
                IN  /\ \E i \in DOMAIN log : log[i] = <<r, d>>
                    /\ IF d \notin DOMAIN fs \/ d \in Unlistable
                       THEN SeqsIn(d) = <<>>
                       ELSE /\ Range(SeqsIn(d)) = YieldOnTree(WithoutFailing, d)
                            /\ Len(SeqsIn(d)) = Cardinality(YieldOnTree(WithoutFailing, d))
          /\ \A i \in DOMAIN scan_result[1].seqs :
                \E r \in OkRoots :
                   DirOfPattern(scan_result[1].seqs[i].pattern) \in Range(task[r].folders)

\* /r cannot be listed, /r/a and /s can: the result holds their Sequences
C16_Witness ==
    /\ scan_result # None
    /\ cfg.roots = <<DirR, DirS>>
    /\ cfg.min_len = 2
    /\ OkRoots = {1, 2}
    /\ DirR \in Unlistable
    /\ \E u \in FailedUnits : FolderOf(u) = DirR
    /\ Len(SeqsIn(DirRA)) = 1
    /\ Len(SeqsIn(DirS)) = 1
    /\ Len(scan_result[1].seqs) = 2

\* the mask is a glob pattern that does not compile
BadGlob(mask) ==
    /\ mask # None
    /\ \E c \in {"*", "?"} : c \in Range(mask[1])
    /\ \E i \in DOMAIN mask[1] : mask[1][i] = "[" /\ \A j \in (i + 1)..Len(mask[1]) : mask[1][j] # "]"

\* C17 -- with a glob mask of invalid syntax the scan fails as a whole: every
\* get_seqs returns Err, the result has no Sequences and one error.
C17_InvalidMaskFails ==
    (scan_result # None /\ BadGlob(cfg.mask)) =>
        /\ \A r \in DOMAIN task : ~task[r].out[1].ok
        /\ scan_result[1].seqs = <<>>
        /\ Len(scan_result[1].errors) = 1

\* whether a file name passes the mask, as the mask is described
PassesMask(mask, name) ==
    IF mask = None THEN TRUE
    ELSE IF \A c \in {"*", "?"} : c \notin Range(mask[1]) THEN name = mask[1]
    ELSE GlobMatch(mask[1], name)

\* C18 -- a listing keeps, in order, exactly the regular files of the
\* directory that pass the mask: all without a mask, the file named as the
\* mask when it has no wildcard, the files matching the glob otherwise.
C18_MaskFiltering ==
    \A u \in Units :
        UnitOf(u).listing.ok =>
            LET d    == FolderOf(u)
                pass == SelectSeq(fs[d].files, LAMBDA n : PassesMask(cfg.mask, n))
            IN  UnitOf(u).listing.files = [i \in DOMAIN pass |-> JoinPath(d, pass[i])]

RECURSIVE Reaches(_, _)
\* d lies below root and every directory from root down to the parent of d
\* can be read
Reaches(root, d) ==
    /\ Len(d) > Len(root)
    /\ ParentOf(d) \in DOMAIN fs
    /\ fs[ParentOf(d)].walk
    /\ (ParentOf(d) = root \/ Reaches(root, ParentOf(d)))

\* C19 -- scan_dirs returns a strictly ascending list that contains the root;
\* besides the root it holds only children of the root when not recursive,
\* and exactly the descendants that can be reached when recursive; it never
\* fails.
C19_Discovery ==
    \A r \in DOMAIN task :
        task[r].phase # "new" =>
            LET root    == cfg.roots[r]
                folders == task[r].folders
                others  == Range(folders) \ {root}
            IN  /\ \A i \in 1..(Len(folders) - 1) : PathLess(folders[i], folders[i + 1])
                /\ root \in Range(folders)
                /\ IF cfg.recursive
                   THEN others = {d \in DOMAIN fs : Reaches(root, d)}
                   ELSE others \subseteq {d \in DOMAIN fs : ParentOf(d) = root}

\* the Sequences group_seqs returned in the units of the roots that returned
\* Ok, in root and folder order, with at least min_len indices
GroupedLongEnough ==
    Flatten([r \in DOMAIN task |->
               IF r \in OkRoots
               THEN Flatten([k \in DOMAIN task[r].units |->
                               SelectSeq(task[r].units[k][1].grouped,
                                         LAMBDA q : Len(q.indices) >= cfg.min_len)])
               ELSE <<>>])

\* C20 -- every Sequence of the result has at least min_len indices, and the
\* result is exactly the Sequences that grouping returned with at least
\* min_len indices.
C20_MinLen ==
    scan_result # None =>
        /\ \A i \in DOMAIN scan_result[1].seqs :
              Len(scan_result[1].seqs[i].indices) >= cfg.min_len
        /\ scan_result[1].seqs = GroupedLongEnough

\* min_len 3 on /r: the Sequence of 1.x 2.x 3.x stays, that of a1.x a2.x goes
C20_Witness ==
    /\ scan_result # None
    /\ cfg.min_len = 3
    /\ \E u \in Units :
          /\ FolderOf(u) = DirR
          /\ Len(UnitOf(u).grouped) = 2
          /\ Len(UnitOf(u).filtered) = 1
    /\ Len(SeqsIn(DirR)) = 1
    /\ Len(SeqsIn(DirR)[1].indices) = 3

\* C21: the found-count a scan publishes on its progress bar never goes
\* down, whatever the interleaving of the workers: each pb.set_message of
\* one invocation carries a count at least as large as the one before it
C21_PublishedMonotone ==
    [][\A r \in DOMAIN task : task'[r].message >= task[r].message]_vars

CountIn(s, x) == Cardinality({i \in DOMAIN s : s[i] = x})

RECURSIVE CountInUnits(_, _)
\* how many times x occurs in the filtered lists of the units S
CountInUnits(S, x) ==
    IF S = {} THEN 0
    ELSE LET u == CHOOSE v \in S : TRUE
         IN  CountIn(UnitOf(u).filtered, x) + CountInUnits(S \ {u}, x)

\* the result is, as a multiset, the union of the filtered Sequences of
\* the folders of the roots R, each of which was processed exactly once
MergedFrom(R) ==
    LET from == {u \in Units : u[1] \in R}
    IN  /\ \A r \in R : \A k \in DOMAIN task[r].folders :
              /\ Cardinality({i \in DOMAIN log : log[i] = <<r, task[r].folders[k]>>}) = 1
              /\ <<r, k>> \in from
        /\ \A x \in Range(scan_result[1].seqs)
                     \cup UNION {Range(UnitOf(u).filtered) : u \in from} :
              CountIn(scan_result[1].seqs, x) = CountInUnits(from, x)

\* the errors of the result are those of the failed roots, in root order
ErrorsConcatenated ==
    LET failed == DOMAIN task \ OkRoots
        errors == scan_result[1].errors
    IN  /\ Len(errors) = Cardinality(failed)
        /\ \A r \in failed :
              errors[Cardinality({q \in failed : q <= r})]
                  = <<cfg.roots[r], task[r].out[1].err>>

\* C23 as stated: every discovered directory of every root is processed
\* exactly once and the result is the multiset union over every root
C23_Original ==
    scan_result # None => MergedFrom(DOMAIN task) /\ ErrorsConcatenated

\* C23: under every interleaving of workers and roots, each discovered
\* directory of every root whose invocation returned Ok is processed
\* exactly once, and the returned list is, as a multiset, exactly the union
\* of the min_len-filtered Sequences of those directories; the errors of
\* the failed roots are concatenated in root order.
C23_FinalMerge ==
    scan_result # None => MergedFrom(OkRoots) /\ ErrorsConcatenated

\* nested roots: /r/a is processed by both invocations, its Sequence is
\* twice in the result
C23_Witness ==
    /\ scan_result # None
    /\ cfg.roots = <<DirR, DirRA>>
    /\ OkRoots = {1, 2}
    /\ Len(log) = 3
    /\ \E x \in Range(scan_result[1].seqs) : CountIn(scan_result[1].seqs, x) = 2
    /\ Len(scan_result[1].seqs) = 4

\* the listed paths whose record has no frame value in its bucket: the
\* bucket reached Phase 2 and the record has no digit group at the frame
\* group index of the bucket, or the group does not parse
MalformedMembers ==
    {j \in DOMAIN paths :
        LET f == File_new(paths[j])
        IN  /\ EntersBucket(f)
            /\ sig_hash(f) \in DOMAIN sub_groups
            /\ FrameValue(f, sub_groups[sig_hash(f)].frame_grp_idx) = None}

\* the records of the listed paths without the j-th
FilesWithout(j) ==
    LET rest == SelectSeq([i \in DOMAIN paths |-> <<i, paths[i]>>],
                          LAMBDA e : e[1] # j)
    IN  [i \in DOMAIN rest |-> File_new(rest[i][2])]

\* C24: a member without a frame value (its frame slice fits no i64, or it
\* has no digit group at the frame group index) is skipped alone.  Grouping
\* ends, and every Sequence the batch gives without that member is still
\* given with it, by the same bucket and anchor sub-group and with the same
\* indices, start, end and missed.
C24_SkippedAlone ==
    pc = "done" =>
        \A j \in MalformedMembers :
            LET subs == SubGroupsOf(BucketsOf(FilesWithout(j)))
            IN  \A u \in Emitting(subs) :
                    LET q == from_files(subs[u[1]].groups[u[2]],
                                        subs[u[1]].frame_grp_idx)[1]
                    IN  \E i \in DOMAIN seqs :
                            /\ built[i] = u
                            /\ seqs[i].indices = q.indices
                            /\ seqs[i].start = q.start
                            /\ seqs[i].end = q.end
                            /\ seqs[i].missed = q.missed

\* 1a1 1a2 with a member whose frame slice fits no i64
C24_Witness ==
    /\ pc = "done"
    /\ \E j \in MalformedMembers :
          /\ Len(File_new(paths[j]).name) > Len(I64MaxDigits)
          /\ \E i \in DOMAIN seqs :
                /\ \E k \in DOMAIN Members(i) : Members(i)[k].fpn = paths[j]
                /\ Len(Members(i)) = 3
                /\ seqs[i].indices = <<1, 2>>

\* a member that fits no i64 beside 1a1, and the Sequence 7 8 of another
\* bucket
C24_WitnessOtherBucket ==
    /\ pc = "done"
    /\ Len(seqs) = 2
    /\ \E j \in MalformedMembers :
          /\ Len(File_new(paths[j]).name) > Len(I64MaxDigits)
          /\ \E i \in DOMAIN seqs : seqs[i].indices = <<7, 8>>

\* 1a1 1a2 with 1a@, which has no digit group at the frame group index
C24_WitnessNoGroup ==
    /\ pc = "done"
    /\ \E j \in MalformedMembers :
          /\ Len(File_new(paths[j]).num_groups) = 1
          /\ \E i \in DOMAIN seqs :
                /\ FrameIdx(i) = 1
                /\ \E k \in DOMAIN Members(i) : Members(i)[k].fpn = paths[j]
                /\ seqs[i].indices = <<1, 2>>

\* d is root or lies below it
IsUnder(d, root) ==
    \/ d = root
    \/ /\ Len(d) > Len(root)
       /\ SubSeq(d, 1, Len(root) + 1) = root \o <<"/">>

\* the directories of the tree a scan of root covers and can read: the root
\* alone, or with recursive every directory below it, each readable all
\* the way down from the root
Covered(root, recursive) ==
    {d \in DOMAIN fs :
        /\ IF recursive THEN IsUnder(d, root) ELSE d = root
        /\ \A a \in DOMAIN fs : (IsUnder(a, root) /\ IsUnder(d, a)) => fs[a].walk}

\* the extension of the name, compared without case, equals a plain entry
\* of exts or matches a wildcard entry
ExtensionWanted(name, exts) ==
    /\ extension(name) # None
    /\ \E i \in DOMAIN exts :
          IF "*" \in Range(exts[i]) \/ "?" \in Range(exts[i])
          THEN GlobMatch(to_lowercase(exts[i]), to_lowercase(extension(name)[1]))
          ELSE to_lowercase(exts[i]) = to_lowercase(extension(name)[1])

\* the files a scan of root is to return
WantedOf(root) ==
    {JoinPath(d, fs[d].files[i]) : <<d, i>> \in
        {e \in UNION {{<<d, i>> : i \in DOMAIN fs[d].files} :
                         d \in Covered(root, cfg.recursive)} :
            cfg.exts = <<>> \/ ExtensionWanted(fs[e[1]].files[e[2]], cfg.exts)}}

\* C25: scan_files returns every regular file when exts is empty, else
\* exactly the files whose extension, compared case-insensitively, equals
\* a plain entry or matches a wildcard entry; of the root alone without
\* recursive, of every directory below it with recursive; the files of all
\* roots combined (a file is returned once for every root that covers it).
C25_ScanFiles ==
    pc = "found" =>
        \A x \in Range(reply.out) \cup UNION {WantedOf(cfg.roots[r]) : r \in DOMAIN cfg.roots} :
            CountIn(reply.out, x)
                = Cardinality({r \in DOMAIN cfg.roots : x \in WantedOf(cfg.roots[r])})

\* C26: after extensions(exts) exactly the files whose extension is one of
\* exts take part in sequence detection, for one extension and for several;
\* with no extension all files take part.  The files that take part are
\* the listing of each folder, in directory order.
C26_Extensions ==
    \A u \in Units :
        UnitOf(u).listing.ok =>
            LET d    == FolderOf(u)
                pass == SelectSeq(fs[d].files,
                            LAMBDA n : cfg.exts # <<>> =>
                                          /\ extension(n) # None
                                          /\ extension(n)[1] \in Range(cfg.exts))
            IN  UnitOf(u).listing.files = [i \in DOMAIN pass |-> JoinPath(d, pass[i])]

\* the places of the path p: in the buckets, in the sub-groups, and in the
\* sub-groups a Sequence was made from
InBuckets(p) ==
    {e \in UNION {{<<h, k>> : k \in DOMAIN by_hash[h]} : h \in DOMAIN by_hash} :
        by_hash[e[1]][e[2]].fpn = p}

InSubGroups(p) ==
    {e \in UNION {UNION {{<<h, key, k>> : k \in DOMAIN sub_groups[h].groups[key]} :
                             key \in DOMAIN sub_groups[h].groups} :
                      h \in DOMAIN sub_groups} :
        sub_groups[e[1]].groups[e[2]][e[3]].fpn = p}

InSequences(p) ==
    {e \in UNION {{<<i, k>> : k \in DOMAIN Members(i)} : i \in DOMAIN seqs} :
        Members(e[1])[e[2]].fpn = p}

\* C27: every listed record is in at most one bucket, at most one
\* sub-group and at most one Sequence, no two Sequences are made from one
\* sub-group, and the member counts of the sub-groups that gave a Sequence
\* add up to at most the number of digit-bearing records listed.
C27_ExclusiveOwnership ==
    pc = "done" =>
        /\ \A p \in Range(paths) :
              /\ Cardinality(InBuckets(p)) <= 1
              /\ Cardinality(InSubGroups(p)) <= 1
              /\ Cardinality(InSequences(p)) <= 1
        /\ \A i, j \in DOMAIN built : i # j => built[i] # built[j]
        /\ Cardinality(UNION {{<<i, k>> : k \in DOMAIN Members(i)} : i \in DOMAIN seqs})
              <= Cardinality({j \in DOMAIN paths : has_nums(File_new(paths[j]))})

\* four digit-bearing records in two sub-groups of one bucket, both emitted
C27_Witness ==
    /\ pc = "done"
    /\ Len(paths) = 4
    /\ Len(seqs) = 2
    /\ built[1][1] = built[2][1]
    /\ \A p \in Range(paths) : Cardinality(InSequences(p)) = 1

\* the listed paths in every order
Reorderings ==
    {[i \in DOMAIN paths |-> paths[perm[i]]] :
        perm \in {f \in [DOMAIN paths -> DOMAIN paths] :
                     \A i, j \in DOMAIN paths : i # j => f[i] # f[j]}}

\* C28: grouping does not depend on the order of the listing: the same
\* files in any other order give the same set of Sequences (indices,
\* missed, start, end, padding and pattern), whatever order the maps are
\* visited in.
C28_OrderIndependence ==
    pc = "done" =>
        \A other \in Reorderings :
            \A res \in GroupResults([i \in DOMAIN other |-> File_new(other[i])]) :
                Range(res) = Range(seqs)

\* C29: for every frame of indices, get_file returns the path, with '/'
\* separators, of a member file that was observed with that frame value,
\* for fixed-width and for variable-width Sequences.
C29_FrameRoundTrip ==
    (reply # <<>> /\ reply.op = "get_file"
        /\ reply.frame \in Range(seqs[reply.seq].indices)) =>
        /\ reply.out # None
        /\ \E k \in DOMAIN Members(reply.seq) :
              /\ FrameValue(Members(reply.seq)[k], FrameIdx(reply.seq))
                    = Some(reply.frame)
              /\ ReplaceBackslash(Members(reply.seq)[k].fpn) = reply.out[1]

\* C30: is_complete answers true only for a Sequence whose indices are all
\* the integers from start to end: start is the first index, end the last,
\* and no integer lies between two neighbouring indices.
C30_CompleteIsSound ==
    (reply # <<>> /\ reply.op = "is_complete" /\ reply.out) =>
        LET s == seqs[reply.seq]
        IN  /\ s.indices[1] = s.start
            /\ s.indices[Len(s.indices)] = s.end
            /\ \A k \in 1..(Len(s.indices) - 1) :
                  s.indices[k + 1] = s.indices[k] + 1

====
